---- MODULE Spec2Model ----
(***************************************************************************)
(* The i915 backend of minigbm (i915.c): device profile, capability        *)
(* matrix, modifier/tiling resolution and plane layout.                    *)
(*                                                                         *)
(* Usage masks are sets of flag names (one name per bit); a NULL list      *)
(* pointer is a record with null = TRUE.  The uint32_t quantities are      *)
(* plain integers: for the dimensions modelled every stride, size and      *)
(* offset stays below 2^31, where uint32_t arithmetic does not wrap (TLC   *)
(* stops with an overflow error on anything larger).                       *)
(***************************************************************************)
EXTENDS Integers, Sequences, FiniteSets, TLC

VARIABLES I915_SCANOUT_Y_TILED, LINEAR_ALIGN_256, drv, bo, call, mapping

vars == <<I915_SCANOUT_Y_TILED, LINEAR_ALIGN_256, drv, bo, call, mapping>>

\* Longest caller-supplied modifier list, and largest count passed with a
\* NULL list.
MaxCount == 2

(***************************************************************************)
(* Integer helpers (util.h macros).                                        *)
(***************************************************************************)
ALIGN(x, a) == ((x + a - 1) \div a) * a

DIV_ROUND_UP(n, d) == (n + d - 1) \div d

IS_ALIGNED(x, a) == x % a = 0

\* getpagesize() on the platforms this driver runs on.
pagesize == 4096

EINVAL == 22

(***************************************************************************)
(* Tiling modes and layout identifiers (i915_drm.h, drm_fourcc.h).  The    *)
(* zero values are the ones a calloc'ed bo starts with.                    *)
(***************************************************************************)
I915_TILING_NONE == "I915_TILING_NONE"
I915_TILING_X == "I915_TILING_X"
I915_TILING_Y == "I915_TILING_Y"

DRM_FORMAT_MOD_LINEAR == "DRM_FORMAT_MOD_LINEAR"
I915_FORMAT_MOD_X_TILED == "I915_FORMAT_MOD_X_TILED"
I915_FORMAT_MOD_Y_TILED == "I915_FORMAT_MOD_Y_TILED"
I915_FORMAT_MOD_Y_TILED_CCS == "I915_FORMAT_MOD_Y_TILED_CCS"
DRM_FORMAT_MOD_INVALID == "DRM_FORMAT_MOD_INVALID"
\* An identifier of another vendor, unknown to this device.
DRM_FORMAT_MOD_VENDOR_OTHER == "DRM_FORMAT_MOD_VENDOR_OTHER"

gen_modifier_order == <<I915_FORMAT_MOD_Y_TILED_CCS, I915_FORMAT_MOD_Y_TILED,
                        I915_FORMAT_MOD_X_TILED, DRM_FORMAT_MOD_LINEAR>>

(***************************************************************************)
(* Usage flags (drv.h) and the masks built from them (drv_priv.h).         *)
(***************************************************************************)
BO_USE_NONE == {}
BO_USE_SCANOUT == {"SCANOUT"}
BO_USE_CURSOR == {"CURSOR"}
BO_USE_RENDERING == {"RENDERING"}
BO_USE_LINEAR == {"LINEAR"}
BO_USE_TEXTURE == {"TEXTURE"}
BO_USE_CAMERA_WRITE == {"CAMERA_WRITE"}
BO_USE_CAMERA_READ == {"CAMERA_READ"}
BO_USE_PROTECTED == {"PROTECTED"}
BO_USE_SW_READ_OFTEN == {"SW_READ_OFTEN"}
BO_USE_SW_READ_RARELY == {"SW_READ_RARELY"}
BO_USE_SW_WRITE_OFTEN == {"SW_WRITE_OFTEN"}
BO_USE_SW_WRITE_RARELY == {"SW_WRITE_RARELY"}
BO_USE_HW_VIDEO_DECODER == {"HW_VIDEO_DECODER"}
BO_USE_HW_VIDEO_ENCODER == {"HW_VIDEO_ENCODER"}
BO_USE_RENDERSCRIPT == {"RENDERSCRIPT"}

BO_USE_SW_MASK == BO_USE_SW_READ_OFTEN \cup BO_USE_SW_WRITE_OFTEN \cup
                  BO_USE_SW_READ_RARELY \cup BO_USE_SW_WRITE_RARELY

BO_USE_TEXTURE_MASK == BO_USE_LINEAR \cup BO_USE_RENDERSCRIPT \cup BO_USE_SW_MASK \cup
                       BO_USE_TEXTURE

BO_USE_RENDER_MASK == BO_USE_TEXTURE_MASK \cup BO_USE_RENDERING

(***************************************************************************)
(* Formats.                                                                *)
(***************************************************************************)
scanout_render_formats == <<"DRM_FORMAT_ABGR2101010", "DRM_FORMAT_ABGR8888",
                            "DRM_FORMAT_ARGB2101010", "DRM_FORMAT_ARGB8888",
                            "DRM_FORMAT_RGB565", "DRM_FORMAT_XBGR2101010",
                            "DRM_FORMAT_XBGR8888", "DRM_FORMAT_XRGB2101010",
                            "DRM_FORMAT_XRGB8888">>

render_formats == <<"DRM_FORMAT_ABGR16161616F">>

texture_only_formats == <<"DRM_FORMAT_R8", "DRM_FORMAT_NV12", "DRM_FORMAT_P010",
                          "DRM_FORMAT_YVU420", "DRM_FORMAT_YVU420_ANDROID">>

\* Per-format plane tables of the helpers: bytes per pixel and horizontal /
\* vertical subsampling of each plane.
PackedLayout(bpp) == [planes |-> 1, bpp |-> <<bpp>>, hsub |-> <<1>>, vsub |-> <<1>>]

drv_get_format_layout(format) ==
    CASE format \in {"DRM_FORMAT_NV12"} ->
           [planes |-> 2, bpp |-> <<1, 2>>, hsub |-> <<1, 2>>, vsub |-> <<1, 2>>]
      [] format \in {"DRM_FORMAT_P010", "DRM_FORMAT_P016"} ->
           [planes |-> 2, bpp |-> <<2, 4>>, hsub |-> <<1, 2>>, vsub |-> <<1, 2>>]
      [] format \in {"DRM_FORMAT_YVU420", "DRM_FORMAT_YVU420_ANDROID"} ->
           [planes |-> 3, bpp |-> <<1, 1, 1>>, hsub |-> <<1, 2, 2>>, vsub |-> <<1, 2, 2>>]
      [] format = "DRM_FORMAT_R8" -> PackedLayout(1)
      [] format = "DRM_FORMAT_RGB565" -> PackedLayout(2)
      [] format = "DRM_FORMAT_BGR888" -> PackedLayout(3)
      [] format = "DRM_FORMAT_ABGR16161616F" -> PackedLayout(8)
      [] OTHER -> PackedLayout(4)

drv_num_planes_from_format(format) == drv_get_format_layout(format).planes

\* plane is the source's 0-based plane index.
drv_stride_from_format(format, width, plane) ==
    LET l == drv_get_format_layout(format)
        stride == (DIV_ROUND_UP(width, l.hsub[plane + 1]) * l.bpp[plane + 1])
    IN  IF format = "DRM_FORMAT_YVU420_ANDROID"
        THEN (IF plane = 0 THEN ALIGN(stride, 32) ELSE ALIGN(stride, 16))
        ELSE stride

drv_height_from_format(format, height, plane) ==
    DIV_ROUND_UP(height, drv_get_format_layout(format).vsub[plane + 1])

(***************************************************************************)
(* Device profile.                                                         *)
(***************************************************************************)
gen3_ids == {"0x2582", "0x2592", "0x2772", "0x27A2", "0x27AE",
             "0x29C2", "0x29B2", "0x29D2", "0xA001", "0xA011"}

gen11_ids == {"0x4E71", "0x4E61", "0x4E51", "0x4E55", "0x4E57"}

gen12_ids == {"0x9A40", "0x9A49", "0x9A59", "0x9A60", "0x9A68", "0x9A70",
              "0x9A78", "0x9AC0", "0x9AC9", "0x9AD9", "0x9AF8"}

adlp_ids == {"0x46A0", "0x46A1", "0x46A2", "0x46A3", "0x46A6", "0x46A8",
             "0x46AA", "0x462A", "0x4626", "0x4628", "0x46B0", "0x46B1",
             "0x46B2", "0x46B3", "0x46C0", "0x46C1", "0x46C2", "0x46C3"}

\* The generation and the ADL-P flag of a device id: each later list
\* overrides the earlier ones.
i915_info_from_device_id(device_id) ==
    LET g0 == 4
        g1 == IF device_id \in gen3_ids THEN 3 ELSE g0
        g2 == IF device_id \in gen11_ids THEN 11 ELSE g1
        g3 == IF device_id \in gen12_ids THEN 12 ELSE g2
    IN  [gen |-> IF device_id \in adlp_ids THEN 12 ELSE g3,
         is_adlp |-> device_id \in adlp_ids]

i915_get_modifier_order == [order |-> gen_modifier_order, count |-> Len(gen_modifier_order)]

\* The i915_device of i915_init: has_hw_protection is set from gen 12 on.
i915_device(device_id) ==
    LET info == i915_info_from_device_id(device_id)
    IN  [device_id |-> device_id, gen |-> info.gen, is_adlp |-> info.is_adlp,
         has_hw_protection |-> IF info.gen >= 12 THEN 1 ELSE 0,
         modifier |-> i915_get_modifier_order]

\* The i915_device of a driver that was not initialised (drv->priv == NULL).
NoDevice ==
    [device_id |-> "none", gen |-> 0, is_adlp |-> FALSE, has_hw_protection |-> 0,
     modifier |-> [order |-> <<>>, count |-> 0]]

(***************************************************************************)
(* Capability matrix: drv->combos, a sequence of combinations.             *)
(***************************************************************************)
drv_add_combination(combos, format, metadata, use_flags) ==
    Append(combos, [format |-> format, metadata |-> metadata, use_flags |-> use_flags])

drv_add_combinations(combos, formats, metadata, use_flags) ==
    combos \o [i \in 1 .. Len(formats) |->
                 [format |-> formats[i], metadata |-> metadata, use_flags |-> use_flags]]

\* Adds use_flags to every combination of the format with this metadata.
drv_modify_combination(combos, format, metadata, use_flags) ==
    [i \in 1 .. Len(combos) |->
       IF /\ combos[i].format = format
          /\ combos[i].metadata.priority = metadata.priority
          /\ combos[i].metadata.tiling = metadata.tiling
          /\ combos[i].metadata.modifier = metadata.modifier
       THEN [combos[i] EXCEPT !.use_flags = @ \cup use_flags]
       ELSE combos[i]]

LINEAR_METADATA == [tiling |-> I915_TILING_NONE, priority |-> 1,
                    modifier |-> DRM_FORMAT_MOD_LINEAR]

drv_modify_linear_combinations(combos) ==
    drv_modify_combination(
        drv_modify_combination(combos, "DRM_FORMAT_XRGB8888", LINEAR_METADATA,
                               BO_USE_CURSOR \cup BO_USE_SCANOUT),
        "DRM_FORMAT_ARGB8888", LINEAR_METADATA, BO_USE_CURSOR \cup BO_USE_SCANOUT)

\* Index (1-based) of the matching combination with the highest priority, the
\* first one among equals; 0 is the NULL result.
drv_get_combination(combos, format, use_flags) ==
    LET match(i) == /\ combos[i].format = format
                    /\ use_flags \subseteq combos[i].use_flags
        M == {i \in 1 .. Len(combos) : match(i)}
    IN  IF use_flags = BO_USE_NONE \/ M = {}
        THEN 0
        ELSE CHOOSE i \in M :
               \A j \in M : \/ combos[j].metadata.priority < combos[i].metadata.priority
                            \/ (combos[j].metadata.priority = combos[i].metadata.priority
                                /\ i <= j)

unset_flags(current_flags, mask) == current_flags \ mask

linear_mask == BO_USE_RENDERSCRIPT \cup BO_USE_LINEAR \cup BO_USE_SW_READ_OFTEN \cup
               BO_USE_SW_WRITE_OFTEN \cup BO_USE_SW_READ_RARELY \cup
               BO_USE_SW_WRITE_RARELY

metadata_linear == [tiling |-> I915_TILING_NONE, priority |-> 1,
                    modifier |-> DRM_FORMAT_MOD_LINEAR]

metadata_x_tiled == [tiling |-> I915_TILING_X, priority |-> 2,
                     modifier |-> I915_FORMAT_MOD_X_TILED]

metadata_y_tiled == [tiling |-> I915_TILING_Y, priority |-> 3,
                     modifier |-> I915_FORMAT_MOD_Y_TILED]

hw_protected(i915) ==
    IF i915.has_hw_protection # 0 THEN BO_USE_PROTECTED \cup BO_USE_SCANOUT ELSE {}

\* The usage added to the linear NV12 combination, hardware decode left out.
nv12_linear_usage_no_decoder(i915) ==
    BO_USE_CAMERA_READ \cup BO_USE_CAMERA_WRITE \cup BO_USE_SCANOUT \cup
    BO_USE_HW_VIDEO_ENCODER \cup hw_protected(i915)

\* Usage added to the linear NV12 combination.
nv12_linear_usage(i915) ==
    BO_USE_CAMERA_READ \cup BO_USE_CAMERA_WRITE \cup BO_USE_SCANOUT \cup
    BO_USE_HW_VIDEO_DECODER \cup BO_USE_HW_VIDEO_ENCODER \cup hw_protected(i915)

\* Usage added to the linear R8 combination.
r8_linear_usage ==
    BO_USE_CAMERA_READ \cup BO_USE_CAMERA_WRITE \cup BO_USE_HW_VIDEO_DECODER \cup
    BO_USE_HW_VIDEO_ENCODER

\* The render mask with the linear-only flags left in.
render_not_linear_kept == BO_USE_RENDER_MASK

render_not_linear == unset_flags(BO_USE_RENDER_MASK, linear_mask)

scanout_and_render_not_linear == render_not_linear \cup BO_USE_SCANOUT

\* The Y-tiled NV12 usage without hardware decode.
nv12_usage_texture_only(i915, scanout_y_tiled) == BO_USE_TEXTURE

nv12_usage(i915, scanout_y_tiled) ==
    IF scanout_y_tiled
    THEN BO_USE_TEXTURE \cup BO_USE_HW_VIDEO_DECODER \cup BO_USE_SCANOUT \cup
         hw_protected(i915)
    ELSE BO_USE_TEXTURE \cup BO_USE_HW_VIDEO_DECODER

p010_usage(i915, scanout_y_tiled) ==
    IF scanout_y_tiled
    THEN BO_USE_TEXTURE \cup BO_USE_HW_VIDEO_DECODER \cup hw_protected(i915) \cup
         (IF i915.gen >= 11 THEN BO_USE_SCANOUT ELSE {})
    ELSE nv12_usage(i915, scanout_y_tiled)

\* The matrix i915_add_combinations leaves in drv->combos, rule by rule in the
\* order of the source.
i915_add_combinations(i915, scanout_y_tiled) ==
    LET scanout_and_render == BO_USE_RENDER_MASK \cup BO_USE_SCANOUT
        render == BO_USE_RENDER_MASK
        texture_only == BO_USE_TEXTURE_MASK
        c1 == drv_add_combinations(<<>>, scanout_render_formats, metadata_linear,
                                   scanout_and_render)
        c2 == drv_add_combinations(c1, render_formats, metadata_linear, render)
        c3 == drv_add_combinations(c2, texture_only_formats, metadata_linear,
                                   texture_only)
        c4 == drv_modify_linear_combinations(c3)
        c5 == drv_modify_combination(c4, "DRM_FORMAT_NV12", metadata_linear,
                                     nv12_linear_usage(i915))
        c6 == drv_add_combination(c5, "DRM_FORMAT_BGR888", metadata_linear,
                                  BO_USE_SW_MASK)
        c7 == drv_modify_combination(c6, "DRM_FORMAT_R8", metadata_linear,
                                     r8_linear_usage)
        c8 == drv_add_combinations(c7, render_formats, metadata_x_tiled,
                                   render_not_linear)
        c9 == drv_add_combinations(c8, scanout_render_formats, metadata_x_tiled,
                                   scanout_and_render_not_linear)
        c10 == drv_add_combination(c9, "DRM_FORMAT_NV12", metadata_y_tiled,
                                   nv12_usage(i915, scanout_y_tiled))
        c11 == drv_add_combination(c10, "DRM_FORMAT_P010", metadata_y_tiled,
                                   p010_usage(i915, scanout_y_tiled))
        c12 == drv_add_combinations(c11, render_formats, metadata_y_tiled,
                                    render_not_linear)
    IN  drv_add_combinations(c12, scanout_render_formats, metadata_y_tiled,
                             render_not_linear)

(***************************************************************************)
(* Plane layout engine.                                                    *)
(***************************************************************************)
Planes == 0 .. 3

NoPlanes == [p \in Planes |-> 0]

\* while (*stride > horizontal_alignment) horizontal_alignment <<= 1;
RECURSIVE i915_double_alignment(_, _)
i915_double_alignment(horizontal_alignment, stride) ==
    IF stride > horizontal_alignment
    THEN i915_double_alignment((horizontal_alignment * 2), stride)
    ELSE horizontal_alignment

\* 1 << (32 - __builtin_clz(x)): the least power of two above x (x >= 1).
RECURSIVE pow2_above(_, _)
pow2_above(p, x) == IF p > x THEN p ELSE pow2_above(p * 2, x)

i915_horizontal_alignment(i915, tiling, align256) ==
    CASE tiling = I915_TILING_X -> 512
      [] tiling = I915_TILING_Y -> (IF i915.gen = 3 THEN 512 ELSE 128)
      [] OTHER -> (IF align256 THEN 256 ELSE 64)

\* Y tiling given the row alignment of X tiling on every generation.
i915_vertical_alignment_y8(i915, tiling) ==
    CASE tiling = I915_TILING_X -> 8
      [] tiling = I915_TILING_Y -> 8
      [] OTHER -> 4

i915_vertical_alignment(i915, tiling) ==
    CASE tiling = I915_TILING_X -> 8
      [] tiling = I915_TILING_Y -> (IF i915.gen = 3 THEN 8 ELSE 32)
      [] OTHER -> 4

\* [ret, stride, aligned_height] of i915_align_dimensions; the two outputs
\* are written before the stride limit is tested.
i915_align_dimensions(i915, tiling, align256, stride, height) ==
    LET horizontal_alignment == i915_horizontal_alignment(i915, tiling, align256)
        vertical_alignment == i915_vertical_alignment(i915, tiling)
        aligned_height == ALIGN(height, vertical_alignment)
        s1 == IF i915.gen > 3
              THEN ALIGN(stride, horizontal_alignment)
              ELSE i915_double_alignment(horizontal_alignment, stride)
        s2 == IF i915.is_adlp /\ s1 > 1 /\ tiling # I915_TILING_NONE
              THEN (pow2_above(1, s1 - 1))
              ELSE s1
    IN  [ret |-> IF i915.gen <= 3 /\ s2 > 8192 THEN -EINVAL ELSE 0,
         stride |-> s2, aligned_height |-> aligned_height]

i915_format_needs_LCU_alignment(format, plane, i915) ==
    IF format \in {"DRM_FORMAT_NV12", "DRM_FORMAT_P010", "DRM_FORMAT_P016"}
    THEN (i915.gen = 11 \/ i915.gen = 12) /\ plane = 1
    ELSE FALSE

\* The offset left where it was.
i915_next_offset_stuck(offset, size) == offset

\* The offset at which the plane after one of this size starts.
i915_next_offset(offset, size) == (offset + size)

\* The total size left unaligned.
i915_total_size_unaligned(offset) == offset

\* bo->meta.total_size of the generic path.
i915_total_size(offset) == ALIGN(offset, pagesize)

\* The planes from `plane` on of the loop of i915_bo_from_format: [ret, meta,
\* asserted], asserted being whether every assert passed.
RECURSIVE i915_bo_from_format_loop(_, _, _, _, _, _, _, _, _)
i915_bo_from_format_loop(meta, i915, align256, width, height, format, plane, offset, asserted) ==
    IF plane >= drv_num_planes_from_format(format)
    THEN [ret |-> 0, meta |-> [meta EXCEPT !.total_size = i915_total_size(offset)],
          asserted |-> asserted]
    ELSE LET stride == drv_stride_from_format(format, width, plane)
             plane_height == drv_height_from_format(format, height, plane)
             ok == asserted /\ (meta.tiling # I915_TILING_NONE => IS_ALIGNED(offset, pagesize))
             a == i915_align_dimensions(i915, meta.tiling, align256, stride, plane_height)
             h == IF i915_format_needs_LCU_alignment(format, plane, i915)
                  THEN ALIGN(a.aligned_height, 64)
                  ELSE a.aligned_height
             size == (a.stride * h)
             m == [meta EXCEPT !.strides[plane] = a.stride, !.sizes[plane] = size,
                               !.offsets[plane] = offset]
         IN  IF a.ret # 0
             THEN [ret |-> a.ret, meta |-> meta, asserted |-> ok]
             ELSE i915_bo_from_format_loop(m, i915, align256, width, height, format,
                                           plane + 1, i915_next_offset(offset, size), ok)

i915_bo_from_format(meta, i915, align256, width, height, format) ==
    i915_bo_from_format_loop(meta, i915, align256, width, height, format, 0, 0, TRUE)

\* The helper's plain layout, used for the Android YV12 format: the chroma
\* strides are half the luma stride, the total is the unaligned sum.
RECURSIVE drv_bo_from_format_loop(_, _, _, _, _, _)
drv_bo_from_format_loop(meta, stride, aligned_height, format, plane, offset) ==
    IF plane >= drv_num_planes_from_format(format)
    THEN [meta EXCEPT !.total_size = offset]
    ELSE LET s == IF plane # 0 /\ format \in {"DRM_FORMAT_YVU420", "DRM_FORMAT_YVU420_ANDROID"}
                  THEN DIV_ROUND_UP(stride, 2)
                  ELSE stride
             size == (s * drv_height_from_format(format, aligned_height, plane))
         IN  drv_bo_from_format_loop(
                 [meta EXCEPT !.strides[plane] = s, !.sizes[plane] = size,
                              !.offsets[plane] = offset],
                 stride, aligned_height, format, plane + 1, (offset + size))

drv_bo_from_format(meta, stride, aligned_height, format) ==
    drv_bo_from_format_loop(meta, stride, aligned_height, format, 0, 0)

\* A tile counted as one 128-byte row.
i915_tiles_size_rows(width_in_tiles, height_in_tiles) ==
    width_in_tiles * height_in_tiles * 128

\* Size in bytes of a surface of that many Y tiles.
i915_tiles_size(width_in_tiles, height_in_tiles) ==
    (width_in_tiles * height_in_tiles * 4096)

\* The compressed layout: the main surface and its control surface.
i915_ccs_layout(meta, width, height, format) ==
    LET stride == drv_stride_from_format(format, width, 0)
        width_in_tiles == DIV_ROUND_UP(stride, 128)
        height_in_tiles == DIV_ROUND_UP(height, 32)
        size == i915_tiles_size(width_in_tiles, height_in_tiles)
        ccs_width_in_tiles == DIV_ROUND_UP(width_in_tiles, 32)
        ccs_height_in_tiles == DIV_ROUND_UP(height_in_tiles, 16)
        ccs_size == i915_tiles_size(ccs_width_in_tiles, ccs_height_in_tiles)
    IN  [meta EXCEPT !.strides[0] = (width_in_tiles * 128),
                     !.sizes[0] = size,
                     !.offsets[0] = 0,
                     !.strides[1] = (ccs_width_in_tiles * 128),
                     !.sizes[1] = ccs_size,
                     !.offsets[1] = size,
                     !.num_planes = 2,
                     !.total_size = (size + ccs_size)]

(***************************************************************************)
(* Modifier / tiling resolver.                                             *)
(***************************************************************************)
\* A caller's list pointer: NULL, or `count` identifiers.
NullList == [null |-> TRUE, elems |-> <<>>]

ListOf(elems) == [null |-> FALSE, elems |-> elems]

\* The first identifier of `order` that is in the caller's list; `nomatch` is
\* what the helper hands back when there is none.
drv_pick_modifier(modifiers, count, order, order_count, nomatch) ==
    LET hit(i) == \E j \in 1 .. count : modifiers.elems[j] = order[i]
        H == {i \in 1 .. order_count : hit(i)}
    IN  IF H = {} THEN nomatch ELSE order[CHOOSE i \in H : \A k \in H : i <= k]

\* The huge-surface test with the width limit doubled.
i915_huge_bo_wide(i915, width) == i915.gen < 11 /\ width > 8192

i915_huge_bo(i915, width) == i915.gen < 11 /\ width > 4096

\* i915_select_modifier failing when the caller's list holds no identifier of
\* the device.
i915_select_modifier_strict(driver, format, use_flags, modifiers, count, nomatch) ==
    IF ~modifiers.null
    THEN LET picked == drv_pick_modifier(modifiers, count, driver.priv.modifier.order,
                                         driver.priv.modifier.count,
                                         DRM_FORMAT_MOD_INVALID)
         IN  [ret |-> IF picked = DRM_FORMAT_MOD_INVALID THEN -EINVAL ELSE 0,
              modifier |-> picked]
    ELSE LET combo == drv_get_combination(driver.combos, format, use_flags)
         IN  IF combo = 0
             THEN [ret |-> -EINVAL, modifier |-> DRM_FORMAT_MOD_INVALID]
             ELSE [ret |-> 0, modifier |-> driver.combos[combo].metadata.modifier]

\* [ret, modifier]: the candidate identifier, from the caller's list or from
\* the capability matrix.
i915_select_modifier(driver, format, use_flags, modifiers, count, nomatch) ==
    IF ~modifiers.null
    THEN [ret |-> 0,
          modifier |-> drv_pick_modifier(modifiers, count, driver.priv.modifier.order,
                                         driver.priv.modifier.count, nomatch)]
    ELSE LET combo == drv_get_combination(driver.combos, format, use_flags)
         IN  IF combo = 0
             THEN [ret |-> -EINVAL, modifier |-> DRM_FORMAT_MOD_INVALID]
             ELSE [ret |-> 0, modifier |-> driver.combos[combo].metadata.modifier]

\* The value of i after
\*   for (i = 0; modifiers && i < count; i++) if (modifiers[i] == wanted) break;
i915_find_modifier(modifiers, count, wanted) ==
    IF modifiers.null
    THEN 0
    ELSE LET F == {j \in 1 .. count : modifiers.elems[j] = wanted}
         IN  IF F = {} THEN count ELSE (CHOOSE j \in F : \A k \in F : j <= k) - 1

\* Huge-surface downgrade.
i915_huge_bo_modifier(modifier, huge_bo, format, modifiers, count) ==
    IF /\ huge_bo
       /\ format # "DRM_FORMAT_NV12"
       /\ format # "DRM_FORMAT_P010"
       /\ modifier # I915_FORMAT_MOD_X_TILED
       /\ modifier # DRM_FORMAT_MOD_LINEAR
    THEN IF i915_find_modifier(modifiers, count, I915_FORMAT_MOD_X_TILED) = count
         THEN DRM_FORMAT_MOD_LINEAR
         ELSE I915_FORMAT_MOD_X_TILED
    ELSE modifier

\* Compression-disabled downgrade.
i915_compression_modifier(modifier, compression, modifiers, count) ==
    IF ~compression /\ modifier = I915_FORMAT_MOD_Y_TILED_CCS
    THEN IF i915_find_modifier(modifiers, count, I915_FORMAT_MOD_Y_TILED) = count
         THEN DRM_FORMAT_MOD_LINEAR
         ELSE I915_FORMAT_MOD_Y_TILED
    ELSE modifier

\* The switch on the modifier: an identifier with no case leaves the tiling.
i915_tiling_from_modifier(tiling, modifier) ==
    CASE modifier = DRM_FORMAT_MOD_LINEAR -> I915_TILING_NONE
      [] modifier = I915_FORMAT_MOD_X_TILED -> I915_TILING_X
      [] modifier \in {I915_FORMAT_MOD_Y_TILED, I915_FORMAT_MOD_Y_TILED_CCS} -> I915_TILING_Y
      [] OTHER -> tiling

\* i915_bo_compute_metadata on the bo metadata `meta`: ret is what the caller
\* gets, meta what is left in the bo.  The other fields record the call:
\* candidate is the identifier before the two downgrades, path the layout
\* branch taken, layout_ret the value i915_bo_from_format returned there (the
\* source drops it and returns 0), asserted whether every assert passed.
i915_bo_compute_metadata(meta, driver, align256, width, height, format, use_flags, modifiers, count, nomatch) ==
    LET i915 == driver.priv
        huge_bo == i915_huge_bo(i915, width)
        sel == i915_select_modifier(driver, format, use_flags, modifiers, count, nomatch)
        m1 == i915_huge_bo_modifier(sel.modifier, huge_bo, format, modifiers, count)
        modifier == i915_compression_modifier(m1, driver.compression, modifiers, count)
        m == [meta EXCEPT !.tiling = i915_tiling_from_modifier(@, modifier),
                          !.format_modifier = modifier]
    IN  IF sel.ret # 0
        THEN [ret |-> sel.ret, meta |-> meta, candidate |-> sel.modifier,
              path |-> "none", layout_ret |-> 0, asserted |-> TRUE]
        ELSE IF format = "DRM_FORMAT_YVU420_ANDROID"
        THEN [ret |-> 0, meta |-> drv_bo_from_format(m, ALIGN(width, 32), height, format),
              candidate |-> sel.modifier, path |-> "android", layout_ret |-> 0,
              asserted |-> TRUE]
        ELSE IF modifier = I915_FORMAT_MOD_Y_TILED_CCS
        THEN [ret |-> 0, meta |-> i915_ccs_layout(m, width, height, format),
              candidate |-> sel.modifier, path |-> "ccs", layout_ret |-> 0,
              asserted |-> TRUE]
        ELSE LET r == i915_bo_from_format(m, i915, align256, width, height, format)
             IN  [ret |-> 0, meta |-> r.meta, candidate |-> sel.modifier,
                  path |-> "generic", layout_ret |-> r.ret, asserted |-> r.asserted]

(***************************************************************************)
(* Mapping.                                                                *)
(***************************************************************************)
MAP_FAILED == "MAP_FAILED"

\* The address DRM_IOCTL_I915_GEM_MMAP hands back, and the one mmap on the
\* drm fd at the DRM_IOCTL_I915_GEM_MMAP_GTT offset hands back.
GEM_MMAP_ADDR == "gem_map.addr_ptr"

GTT_MMAP_ADDR == "mmap(gem_map.offset)"

\* Outcome of a collaborator call: not made, made and failed, made and succeeded.
NOT_CALLED == "not called"

CALL_FAILED == "failed"

CALL_OK == "ok"

CallOutcome(ok) == IF ok THEN CALL_OK ELSE CALL_FAILED

NoMapping == [addr |-> MAP_FAILED, length |-> 0, wc |-> FALSE, gem_mmap |-> NOT_CALLED,
              gem_mmap_gtt |-> NOT_CALLED, mmap |-> NOT_CALLED]

\* Every buffer let through to the mapping paths.
i915_bo_map_refused_never(meta) == FALSE

\* The test i915_bo_map opens with.
i915_bo_map_refused(meta) == meta.format_modifier = I915_FORMAT_MOD_Y_TILED_CCS

\* gem_map.flags = I915_MMAP_WC
i915_mmap_wc(use_flags) ==
    /\ use_flags \cap BO_USE_SCANOUT # {}
    /\ use_flags \cap (BO_USE_RENDERSCRIPT \cup BO_USE_CAMERA_READ \cup BO_USE_CAMERA_WRITE) = {}

\* i915_bo_map: the address returned, vma->length, and the calls made on the
\* way with their outcomes (a call not reached is recorded as not made).
i915_bo_map(meta, gem_mmap_ok, gem_mmap_gtt_ok, mmap_ok) ==
    IF i915_bo_map_refused(meta)
    THEN NoMapping
    ELSE LET linear == meta.tiling = I915_TILING_NONE
             addr1 == IF linear /\ gem_mmap_ok THEN GEM_MMAP_ADDR ELSE MAP_FAILED
             gtt == addr1 = MAP_FAILED
             addr2 == IF ~gtt
                      THEN addr1
                      ELSE IF gem_mmap_gtt_ok /\ mmap_ok THEN GTT_MMAP_ADDR ELSE MAP_FAILED
         IN  [addr |-> addr2,
              length |-> IF addr2 = MAP_FAILED THEN 0 ELSE meta.total_size,
              wc |-> linear /\ i915_mmap_wc(meta.use_flags),
              gem_mmap |-> IF linear THEN CallOutcome(gem_mmap_ok) ELSE NOT_CALLED,
              gem_mmap_gtt |-> IF gtt THEN CallOutcome(gem_mmap_gtt_ok) ELSE NOT_CALLED,
              mmap |-> IF gtt /\ gem_mmap_gtt_ok THEN CallOutcome(mmap_ok) ELSE NOT_CALLED]

(***************************************************************************)
(* State machine.                                                          *)
(***************************************************************************)
\* One device id per generation tier, the ADL-P variant, and an id in no list.
DeviceIds == {"0x2582", "0x4E71", "0x9A40", "0x46A0", "0x5917"}

Formats == {"DRM_FORMAT_XRGB8888", "DRM_FORMAT_RGB565", "DRM_FORMAT_ABGR16161616F",
            "DRM_FORMAT_R8", "DRM_FORMAT_NV12", "DRM_FORMAT_P010", "DRM_FORMAT_YVU420",
            "DRM_FORMAT_YVU420_ANDROID", "DRM_FORMAT_BGR888"}

Widths == {1, 1920, 4096, 4097}

Heights == {1, 1080}

UseFlagSets == {BO_USE_NONE, BO_USE_RENDERING, BO_USE_LINEAR, BO_USE_TEXTURE,
                BO_USE_SCANOUT, BO_USE_HW_VIDEO_DECODER, BO_USE_SW_READ_OFTEN,
                BO_USE_CAMERA_WRITE,
                BO_USE_RENDERING \cup BO_USE_LINEAR,
                BO_USE_RENDERING \cup BO_USE_SCANOUT,
                BO_USE_TEXTURE \cup BO_USE_HW_VIDEO_DECODER,
                BO_USE_LINEAR \cup BO_USE_HW_VIDEO_DECODER,
                BO_USE_PROTECTED \cup BO_USE_SCANOUT}

Modifiers == {I915_FORMAT_MOD_Y_TILED_CCS, I915_FORMAT_MOD_Y_TILED,
              I915_FORMAT_MOD_X_TILED, DRM_FORMAT_MOD_LINEAR,
              DRM_FORMAT_MOD_VENDOR_OTHER}

ModifierLists == UNION {[1 .. n -> Modifiers] : n \in 0 .. MaxCount}

\* What drv_pick_modifier may hand back when no identifier matches.
NoMatchResults == {DRM_FORMAT_MOD_LINEAR, DRM_FORMAT_MOD_INVALID}

\* The metadata of a bo as drv_bo_new leaves it: zeroed, with the request.
NewMeta(width, height, format, use_flags) ==
    [width |-> width, height |-> height, format |-> format, use_flags |-> use_flags,
     tiling |-> I915_TILING_NONE, format_modifier |-> DRM_FORMAT_MOD_LINEAR,
     num_planes |-> drv_num_planes_from_format(format),
     strides |-> NoPlanes, sizes |-> NoPlanes, offsets |-> NoPlanes, total_size |-> 0]

\* drv->combos.  i915_init fills it once, with what i915_add_combinations
\* gives for the device, and nothing writes it afterwards: the state keeps the
\* device, and the matrix is read from this table.
CombinationsOf[device_id \in DeviceIds, scanout_y_tiled \in BOOLEAN] ==
    i915_add_combinations(i915_device(device_id), scanout_y_tiled)

drv_combos ==
    IF drv.initialized
    THEN CombinationsOf[drv.priv.device_id, I915_SCANOUT_Y_TILED]
    ELSE <<>>

\* struct driver as the backend reads it.
driver_of_drv == [compression |-> drv.compression, priv |-> drv.priv, combos |-> drv_combos]

NoBo == [live |-> FALSE, meta |-> NewMeta(0, 0, "DRM_FORMAT_NONE", BO_USE_NONE)]

NoCall == [fn |-> "none", ret |-> 0, modifiers |-> NullList, count |-> 0,
           candidate |-> DRM_FORMAT_MOD_INVALID, path |-> "none", layout_ret |-> 0,
           asserted |-> TRUE]

Init ==
    /\ I915_SCANOUT_Y_TILED \in BOOLEAN
    /\ LINEAR_ALIGN_256 \in BOOLEAN
    /\ drv = [initialized |-> FALSE, compression |-> FALSE, priv |-> NoDevice]
    /\ bo = NoBo
    /\ call = NoCall
    /\ mapping = NoMapping

\* i915_init: the two GETPARAM ioctls succeed (ok) or one fails.
Init_i915 ==
    /\ ~drv.initialized
    /\ \E device_id \in DeviceIds, compression \in BOOLEAN, ok \in BOOLEAN :
         IF ok
         THEN /\ drv' = [initialized |-> TRUE, compression |-> compression,
                         priv |-> i915_device(device_id)]
              /\ call' = [NoCall EXCEPT !.fn = "i915_init"]
         ELSE /\ drv' = drv
              /\ call' = [NoCall EXCEPT !.fn = "i915_init", !.ret = -EINVAL]
    /\ UNCHANGED <<I915_SCANOUT_Y_TILED, LINEAR_ALIGN_256, bo, mapping>>

\* The requests: with a list (the usage flags are not read on that path), or
\* with a NULL list, a usage-flag set and any count.
ConstrainedRequests ==
    [format : Formats, width : Widths, height : Heights, use_flags : {BO_USE_TEXTURE},
     modifiers : {ListOf(l) : l \in ModifierLists}, nomatch : NoMatchResults]

UnconstrainedRequests ==
    [format : Formats, width : Widths, height : Heights, use_flags : UseFlagSets,
     modifiers : {NullList}, count : 0 .. MaxCount]

\* A new bo and i915_bo_compute_metadata on it.
Compute(rq, count, nomatch) ==
    \E r \in {i915_bo_compute_metadata(
                 NewMeta(rq.width, rq.height, rq.format, rq.use_flags), driver_of_drv,
                 LINEAR_ALIGN_256, rq.width, rq.height, rq.format, rq.use_flags,
                 rq.modifiers, count, nomatch)} :
        /\ bo' = [live |-> TRUE, meta |-> r.meta]
        /\ call' = [fn |-> "i915_bo_compute_metadata", ret |-> r.ret,
                    modifiers |-> rq.modifiers, count |-> count,
                    candidate |-> r.candidate, path |-> r.path,
                    layout_ret |-> r.layout_ret, asserted |-> r.asserted]

ComputeMetadata ==
    /\ drv.initialized
    /\ ~bo.live
    /\ \/ \E rq \in ConstrainedRequests : Compute(rq, Len(rq.modifiers.elems), rq.nomatch)
       \/ \E rq \in UnconstrainedRequests : Compute(rq, rq.count, DRM_FORMAT_MOD_INVALID)
    /\ UNCHANGED <<I915_SCANOUT_Y_TILED, LINEAR_ALIGN_256, drv, mapping>>

\* The bo is released (by its owner, or by the caller after a failure).
ReleaseBo ==
    /\ bo.live
    /\ bo' = NoBo
    /\ call' = [NoCall EXCEPT !.fn = "drv_bo_destroy"]
    /\ mapping' = NoMapping
    /\ UNCHANGED <<I915_SCANOUT_Y_TILED, LINEAR_ALIGN_256, drv>>

\* i915_bo_map on the bo whose metadata was just computed (ret 0) and whose
\* object was created from it; the three collaborator calls succeed or fail.
BoMap ==
    /\ bo.live
    /\ call.fn = "i915_bo_compute_metadata"
    /\ call.ret = 0
    /\ \E gem_mmap_ok \in BOOLEAN, gem_mmap_gtt_ok \in BOOLEAN, mmap_ok \in BOOLEAN :
         mapping' = i915_bo_map(bo.meta, gem_mmap_ok, gem_mmap_gtt_ok, mmap_ok)
    /\ call' = [NoCall EXCEPT !.fn = "i915_bo_map"]
    /\ UNCHANGED <<I915_SCANOUT_Y_TILED, LINEAR_ALIGN_256, drv, bo>>

Next == Init_i915 \/ ComputeMetadata \/ BoMap \/ ReleaseBo

Spec == Init /\ [][Next]_vars

(***************************************************************************)
(* Properties.                                                             *)
(***************************************************************************)
Computed == call.fn = "i915_bo_compute_metadata"

Constrained == ~call.modifiers.null

InCallerList(modifier) ==
    /\ Constrained
    /\ \E j \in 1 .. call.count : call.modifiers.elems[j] = modifier

HugeRequest ==
    /\ Computed
    /\ drv.priv.gen < 11
    /\ bo.meta.width > 4096
    /\ bo.meta.format \notin {"DRM_FORMAT_NV12", "DRM_FORMAT_P010"}

\* C1: a request that i915_bo_compute_metadata accepts on a device of
\* generation below 11, wider than 4096 and neither NV12 nor P010, ends with
\* the linear or the X-tiled identifier (tiling none or X), whatever the
\* caller's list, with no list, compression enabled or not.
C1_HugeSurfaceLinearOrX ==
    (HugeRequest /\ call.ret = 0) =>
        /\ bo.meta.format_modifier \in {DRM_FORMAT_MOD_LINEAR, I915_FORMAT_MOD_X_TILED}
        /\ bo.meta.tiling \in {I915_TILING_NONE, I915_TILING_X}

\* A huge request whose list prefers the compressed layout, with compression
\* enabled, and which ended X-tiled.
C1_Witness ==
    /\ HugeRequest
    /\ call.ret = 0
    /\ drv.compression
    /\ call.modifiers = ListOf(<<I915_FORMAT_MOD_Y_TILED_CCS, I915_FORMAT_MOD_X_TILED>>)
    /\ call.candidate = I915_FORMAT_MOD_Y_TILED_CCS
    /\ bo.meta.format_modifier = I915_FORMAT_MOD_X_TILED

NoIntersection ==
    /\ Computed
    /\ Constrained
    /\ call.count >= 1
    /\ \A j \in 1 .. call.count :
         \A i \in 1 .. Len(gen_modifier_order) : call.modifiers.elems[j] # gen_modifier_order[i]

\* C2 as stated: with a non-empty list none of whose identifiers is in the
\* device preference list, i915_bo_compute_metadata fails.
C2_NoIntersectionFails == NoIntersection => call.ret # 0

\* C2, amended: with a non-empty list none of whose identifiers is in the
\* device preference list, i915_bo_compute_metadata does not fail: it returns
\* 0 and lays the buffer out untiled, recording no tiled identifier.
C2_NoIntersectionFallsBack ==
    NoIntersection =>
        /\ call.ret = 0
        /\ bo.meta.tiling = I915_TILING_NONE
        /\ bo.meta.format_modifier \notin {I915_FORMAT_MOD_X_TILED, I915_FORMAT_MOD_Y_TILED,
                                           I915_FORMAT_MOD_Y_TILED_CCS}
        /\ call.path \in {"generic", "android"}

\* A request listing only an identifier of another vendor, answered with 0.
C2_Witness ==
    /\ NoIntersection
    /\ call.modifiers = ListOf(<<DRM_FORMAT_MOD_VENDOR_OTHER>>)
    /\ call.ret = 0
    /\ bo.meta.total_size > 0

\* Some plane of the request, aligned for the tiling recorded in the bo,
\* has a stride above 8192 bytes.
StrideAbove8192 ==
    \E plane \in 0 .. drv_num_planes_from_format(bo.meta.format) - 1 :
       i915_align_dimensions(drv.priv, bo.meta.tiling, LINEAR_ALIGN_256,
                             drv_stride_from_format(bo.meta.format, bo.meta.width, plane),
                             drv_height_from_format(bo.meta.format, bo.meta.height, plane)
                            ).stride > 8192

\* C3: on a generation-3 device, when the aligned stride of a plane exceeds
\* 8192 bytes (the per-plane path, where i915_align_dimensions is called),
\* i915_bo_compute_metadata returns a non-zero error.
C3_StrideLimitSurfaced ==
    (Computed /\ drv.priv.gen = 3 /\ call.path = "generic" /\ StrideAbove8192) =>
        call.ret # 0

\* The request of the example: NV12, hardware video decode, 1920x1080, no
\* list, on a generation-12 device with compression enabled.
NV12DecodeRequest ==
    /\ Computed
    /\ ~Constrained
    /\ bo.meta.format = "DRM_FORMAT_NV12"
    /\ bo.meta.use_flags = BO_USE_HW_VIDEO_DECODER
    /\ bo.meta.width = 1920
    /\ bo.meta.height = 1080
    /\ drv.priv.gen = 12
    /\ drv.compression

\* C4 as stated: that request resolves to the compressed (Y-tiled-CCS)
\* layout, laid out by the two-plane CCS formula.
C4_ResolvesCompressed ==
    NV12DecodeRequest =>
        /\ bo.meta.format_modifier = I915_FORMAT_MOD_Y_TILED_CCS
        /\ call.path = "ccs"

\* C4, amended: that request resolves to the plain Y-tiled layout, the
\* highest-priority descriptor the matrix holds for NV12 decode, and is laid
\* out plane by plane: stride 1920 (2048 on ADL-P), luma height 1088, chroma
\* height 576, the chroma plane right after the luma plane.
C4_ResolvesYTiled ==
    NV12DecodeRequest =>
        LET stride == IF drv.priv.is_adlp THEN 2048 ELSE 1920
        IN  /\ call.ret = 0
            /\ call.candidate = I915_FORMAT_MOD_Y_TILED
            /\ bo.meta.format_modifier = I915_FORMAT_MOD_Y_TILED
            /\ bo.meta.tiling = I915_TILING_Y
            /\ call.path = "generic"
            /\ bo.meta.num_planes = 2
            /\ bo.meta.strides[0] = stride /\ bo.meta.strides[1] = stride
            /\ bo.meta.sizes[0] = stride * 1088
            /\ bo.meta.sizes[1] = stride * 576
            /\ bo.meta.offsets[0] = 0
            /\ bo.meta.offsets[1] = stride * 1088
            /\ bo.meta.total_size = stride * 1664

\* The example request on the gen-12 device that is not ADL-P.
C4_Witness ==
    /\ NV12DecodeRequest
    /\ ~drv.priv.is_adlp
    /\ call.count = 0
    /\ bo.meta.tiling = I915_TILING_Y
    /\ bo.meta.total_size = 3194880

\* C5: no X-tiled or Y-tiled entry of the matrix has BO_USE_LINEAR in its
\* usage mask, and a request with no list whose usage holds BO_USE_LINEAR and
\* which the matrix accepts is resolved to the linear identifier, tiling none.
C5_LinearFlagResolvesLinear ==
    /\ \A i \in 1 .. Len(drv_combos) :
         drv_combos[i].metadata.tiling # I915_TILING_NONE =>
             ~(BO_USE_LINEAR \subseteq drv_combos[i].use_flags)
    /\ (Computed /\ ~Constrained /\ call.ret = 0 /\ BO_USE_LINEAR \subseteq bo.meta.use_flags) =>
           /\ bo.meta.tiling = I915_TILING_NONE
           /\ bo.meta.format_modifier = DRM_FORMAT_MOD_LINEAR

\* A render request with the linear flag on a format that has X- and Y-tiled
\* entries, resolved linear.
C5_Witness ==
    /\ Computed
    /\ ~Constrained
    /\ call.ret = 0
    /\ bo.meta.format = "DRM_FORMAT_XRGB8888"
    /\ bo.meta.use_flags = BO_USE_RENDERING \cup BO_USE_LINEAR
    /\ call.candidate = DRM_FORMAT_MOD_LINEAR
    /\ bo.meta.tiling = I915_TILING_NONE
    /\ bo.meta.total_size > 0

\* The usage set of entry c is also accepted by a linear entry of its format.
HasLinearCover(c) ==
    \E i \in 1 .. Len(drv_combos) :
       /\ drv_combos[i].format = c.format
       /\ drv_combos[i].metadata.tiling = I915_TILING_NONE
       /\ c.use_flags \subseteq drv_combos[i].use_flags

\* C6 as stated: once the matrix is built, every usage set accepted by an
\* entry is also accepted by a linear entry of the same format.
C6_EveryEntryHasLinearFallback ==
    drv.initialized => \A i \in 1 .. Len(drv_combos) : HasLinearCover(drv_combos[i])

\* C6, amended: that holds for every format but P010.  The Y-tiled P010
\* entry accepts hardware video decode, which no linear P010 entry does, so
\* a P010 decode request matches the Y-tiled entry alone.
C6_LinearFallbackExceptP010 ==
    drv.initialized =>
        /\ \A i \in 1 .. Len(drv_combos) :
             drv_combos[i].format # "DRM_FORMAT_P010" => HasLinearCover(drv_combos[i])
        /\ \A i \in 1 .. Len(drv_combos) :
             (drv_combos[i].format = "DRM_FORMAT_P010"
              /\ drv_combos[i].metadata.tiling = I915_TILING_NONE) =>
                 ~(BO_USE_HW_VIDEO_DECODER \subseteq drv_combos[i].use_flags)
        /\ LET c == drv_get_combination(drv_combos, "DRM_FORMAT_P010",
                                        BO_USE_HW_VIDEO_DECODER)
           IN  /\ c # 0
               /\ drv_combos[c].metadata.tiling = I915_TILING_Y
               /\ ~HasLinearCover(drv_combos[c])

\* A P010 decode request with no list, resolved Y-tiled from the matrix.
C6_Witness ==
    /\ Computed
    /\ ~Constrained
    /\ call.ret = 0
    /\ bo.meta.format = "DRM_FORMAT_P010"
    /\ bo.meta.use_flags = BO_USE_HW_VIDEO_DECODER
    /\ bo.meta.tiling = I915_TILING_Y

\* The layout code ran to its end: the per-plane path with
\* i915_bo_from_format returning 0, or the compressed path.
LayoutResolved ==
    /\ Computed
    /\ call.ret = 0
    /\ \/ call.path = "generic" /\ call.layout_ret = 0
       \/ call.path = "ccs"
    /\ bo.meta.width >= 1
    /\ bo.meta.height >= 1

RECURSIVE SumSizes(_)
SumSizes(n) == IF n = 0 THEN 0 ELSE SumSizes(n - 1) + bo.meta.sizes[n - 1]

\* C7: in every layout resolved by the per-plane path or the compressed
\* path, plane 0 starts at offset 0, the offsets strictly increase, and each
\* plane ends where the next one starts.
C7_PlanesContiguous ==
    LayoutResolved =>
        /\ bo.meta.offsets[0] = 0
        /\ \A i \in 0 .. bo.meta.num_planes - 2 :
             /\ bo.meta.offsets[i] < bo.meta.offsets[i + 1]
             /\ bo.meta.offsets[i] + bo.meta.sizes[i] = bo.meta.offsets[i + 1]

\* A three-plane layout of the per-plane path.
C7_Witness ==
    /\ LayoutResolved
    /\ call.path = "generic"
    /\ bo.meta.format = "DRM_FORMAT_YVU420"
    /\ bo.meta.num_planes = 3
    /\ bo.meta.offsets[1] > 0
    /\ bo.meta.offsets[2] > bo.meta.offsets[1]

\* C8: in every such layout total_size is a multiple of the page size and at
\* least the sum of the plane sizes.
C8_TotalSizePageAligned ==
    LayoutResolved =>
        /\ IS_ALIGNED(bo.meta.total_size, pagesize)
        /\ bo.meta.total_size >= SumSizes(bo.meta.num_planes)

\* A linear layout whose planes do not fill their last page.
C8_Witness ==
    /\ LayoutResolved
    /\ call.path = "generic"
    /\ bo.meta.tiling = I915_TILING_NONE
    /\ ~IS_ALIGNED(SumSizes(bo.meta.num_planes), pagesize)
    /\ bo.meta.total_size > SumSizes(bo.meta.num_planes)

\* C9: a layout whose final identifier is Y-tiled-CCS (the Android YV12
\* format aside) has exactly two planes: the main surface at offset 0, of
\* ceil(stride/128) * ceil(height/32) tiles of 4096 bytes, and the control
\* surface right after it, its offset and its size multiples of 4096.
C9_CompressedTwoPlanes ==
    (/\ Computed
     /\ call.ret = 0
     /\ bo.meta.format_modifier = I915_FORMAT_MOD_Y_TILED_CCS
     /\ bo.meta.format # "DRM_FORMAT_YVU420_ANDROID") =>
        /\ bo.meta.num_planes = 2
        /\ bo.meta.offsets[0] = 0
        /\ bo.meta.sizes[0] =
             DIV_ROUND_UP(drv_stride_from_format(bo.meta.format, bo.meta.width, 0), 128)
             * DIV_ROUND_UP(bo.meta.height, 32) * 4096
        /\ bo.meta.offsets[1] = bo.meta.offsets[0] + bo.meta.sizes[0]
        /\ IS_ALIGNED(bo.meta.offsets[1], 4096)
        /\ IS_ALIGNED(bo.meta.sizes[1], 4096)
        /\ bo.meta.sizes[1] > 0
        /\ bo.meta.total_size = bo.meta.sizes[0] + bo.meta.sizes[1]

\* A compressed layout of a format with three planes of its own.
C9_Witness ==
    /\ Computed
    /\ call.ret = 0
    /\ bo.meta.format_modifier = I915_FORMAT_MOD_Y_TILED_CCS
    /\ bo.meta.format = "DRM_FORMAT_YVU420"
    /\ drv_num_planes_from_format(bo.meta.format) = 3
    /\ bo.meta.num_planes = 2
    /\ bo.meta.width = 1920 /\ bo.meta.height = 1080
    /\ bo.meta.sizes[0] = 15 * 34 * 4096

\* C10: when the huge-surface downgrade fires, the identifier becomes X-tiled
\* exactly when X-tiled is in the caller's list and linear otherwise, a NULL
\* list with any count included; when the compression-disabled rewrite fires,
\* Y-tiled-CCS becomes Y-tiled exactly when Y-tiled is in the list and linear
\* otherwise.
C10_DowngradeTargets ==
    LET huge_fires == /\ HugeRequest
                      /\ call.ret = 0
                      /\ call.candidate \notin {I915_FORMAT_MOD_X_TILED,
                                                DRM_FORMAT_MOD_LINEAR}
        ccs_fires == /\ Computed
                     /\ call.ret = 0
                     /\ ~huge_fires
                     /\ ~drv.compression
                     /\ call.candidate = I915_FORMAT_MOD_Y_TILED_CCS
    IN  /\ huge_fires =>
             bo.meta.format_modifier =
                 IF InCallerList(I915_FORMAT_MOD_X_TILED)
                 THEN I915_FORMAT_MOD_X_TILED
                 ELSE DRM_FORMAT_MOD_LINEAR
        /\ ccs_fires =>
             bo.meta.format_modifier =
                 IF InCallerList(I915_FORMAT_MOD_Y_TILED)
                 THEN I915_FORMAT_MOD_Y_TILED
                 ELSE DRM_FORMAT_MOD_LINEAR

\* A buffer has been mapped: i915_bo_map was the last call on the live bo.
Mapped == call.fn = "i915_bo_map" /\ bo.live

TiledOrCompressed ==
    \/ bo.meta.tiling \in {I915_TILING_X, I915_TILING_Y}
    \/ bo.meta.format_modifier = I915_FORMAT_MOD_Y_TILED_CCS

GttPathTaken ==
    /\ mapping.gem_mmap = NOT_CALLED
    /\ mapping.gem_mmap_gtt # NOT_CALLED
    /\ (mapping.gem_mmap_gtt = CALL_OK => mapping.mmap # NOT_CALLED)
    /\ (mapping.gem_mmap_gtt = CALL_OK /\ mapping.mmap = CALL_OK
            => mapping.addr = GTT_MMAP_ADDR)

LinearPathTaken ==
    /\ mapping.gem_mmap # NOT_CALLED
    /\ (mapping.gem_mmap = CALL_OK
            => mapping.addr = GEM_MMAP_ADDR /\ mapping.gem_mmap_gtt = NOT_CALLED)
    /\ (mapping.gem_mmap = CALL_FAILED => mapping.gem_mmap_gtt # NOT_CALLED)

\* C11 as stated: mapping a tiled or compressed buffer (the Y-tiled-CCS
\* identifier included) never attempts the CPU-domain mmap and always goes
\* through the GTT path, returning the mapped address whenever the collaborator
\* succeeds; a linear buffer attempts the CPU-domain mapping and falls back to
\* the GTT path when that fails.
C11_TiledOrCompressedMapsThroughGtt ==
    Mapped =>
        IF TiledOrCompressed THEN GttPathTaken ELSE LinearPathTaken

\* C11, amended: a buffer whose identifier is Y-tiled-CCS is never mapped
\* (i915_bo_map returns MAP_FAILED without making any mapping call); a buffer
\* of tiling X or Y with any other identifier never attempts the CPU-domain
\* mmap and goes through the GTT path, returning the mapped address whenever
\* the collaborator succeeds; a linear buffer attempts the CPU-domain mapping
\* and falls back to the GTT path when that fails.
C11_TiledMapsThroughGttCompressedRefused ==
    Mapped =>
        IF bo.meta.format_modifier = I915_FORMAT_MOD_Y_TILED_CCS
        THEN mapping = NoMapping
        ELSE IF bo.meta.tiling \in {I915_TILING_X, I915_TILING_Y}
             THEN GttPathTaken
             ELSE LinearPathTaken

\* C11 witness: a Y-tiled-CCS buffer was handed to i915_bo_map and came back
\* unmapped with no call made.
C11_Witness ==
    /\ Mapped
    /\ bo.meta.format_modifier = I915_FORMAT_MOD_Y_TILED_CCS
    /\ bo.meta.tiling = I915_TILING_Y
    /\ mapping.addr = MAP_FAILED
    /\ mapping.gem_mmap_gtt = NOT_CALLED

\* i915_bo_from_format laid out a tiled buffer (the generic path, tiling X or Y).
TiledGenericLayout ==
    /\ Computed
    /\ call.path = "generic"
    /\ bo.meta.tiling \in {I915_TILING_X, I915_TILING_Y}

\* C12: the assertion in i915_bo_from_format never fails: for every tiled
\* layout (tiling X or Y), on every generation, with or without the ADL-P
\* power-of-two stride and the 64-row chroma padding, for every multi-plane
\* format, each plane starts at a byte offset that is a multiple of the page
\* size, each preceding plane's stride times height being one.
C12_TiledPlaneOffsetsPageAligned ==
    TiledGenericLayout =>
        /\ call.asserted
        /\ call.layout_ret = 0 =>
              \A p \in 0 .. (bo.meta.num_planes - 1) :
                  /\ IS_ALIGNED(bo.meta.offsets[p], pagesize)
                  /\ IS_ALIGNED(bo.meta.sizes[p], pagesize)

\* C12 witness: a Y-tiled NV12 buffer on ADL-P (power-of-two stride, chroma
\* height padded to 64 rows) whose second plane starts past the first, at a
\* page boundary.
C12_Witness ==
    /\ TiledGenericLayout
    /\ call.layout_ret = 0
    /\ drv.priv.is_adlp
    /\ bo.meta.tiling = I915_TILING_Y
    /\ bo.meta.format = "DRM_FORMAT_NV12"
    /\ bo.meta.height = 1080
    /\ bo.meta.strides[0] = 2048
    /\ bo.meta.offsets[1] = 2048 * 1088
    /\ bo.meta.sizes[1] = 2048 * 576
    /\ call.asserted

====
